---- MODULE Spec2Model ----
(***************************************************************************)
(* LightSession content script: the trimmer state machine (trimmer.ts),    *)
(* the thread builders and root probe (dom-helpers.ts), the adaptive       *)
(* observers (observers.ts) and the content-script glue that drives them   *)
(* (the content entry point: root sync, handleMutation, storage listener). *)
(*                                                                         *)
(* The browser event loop is modelled explicitly: a FIFO microtask queue   *)
(* (queueMicrotask, promise reactions) and a bag of macrotasks (timers,    *)
(* idle callbacks, animation frames).  A macrotask or an extension event   *)
(* (storage change, initialize) runs only when the microtask queue is      *)
(* empty; host-page scripts may touch the DOM between any two callbacks.   *)
(*                                                                         *)
(* Message nodes are natural numbers; document order is numeric order, so  *)
(* a thread (NodeList in document order) is a set of numbers and the index *)
(* of a node in it is the number of smaller members.  Wall-clock time is   *)
(* not modelled: every comparison against a duration is an input.          *)
(*                                                                         *)
(* The page script (fetch proxy: trimMapping, interceptedFetch) keeps no   *)
(* state between two fetches and shares none with the content script; it   *)
(* has its own specification, PageSpec, over the variables request and     *)
(* response.                                                               *)
(*                                                                         *)
(* Runtime messaging (shared/messages.ts, background.ts) is a third        *)
(* component: one sendMessageWithTimeout call of the popup and the         *)
(* listener createMessageHandler builds in the background, over the        *)
(* variable channel, under the specification MsgSpec.                      *)
(*                                                                         *)
(* The functions that keep no state (validateSettings, the selector tiers  *)
(* with filterToOutermostElements, the window error listeners) are applied *)
(* to bounded inputs under the specification HelperSpec, over the variable *)
(* call.  One run of the batched executor with more targets than a chunk   *)
(* takes is followed under BatchSpec (variable run), and the user-message  *)
(* collapser (user-collapse.ts) under CollapseSpec (variable collapse).    *)
(***************************************************************************)
EXTENDS Integers, Sequences, FiniteSets, Bags, TLC

\* ---- bounds of the model ------------------------------------------------
MaxNodeId == 7      \* message nodes the host page ever creates
MaxObs == 2         \* MutationObserver objects alive at the same time
MaxMicro == 3       \* length of the microtask queue
MaxMacro == 1       \* pending timers + idle callbacks (a frame counts apart)
KeepLow == 4        \* the small keep value the user may choose
MaxPath == 4        \* nodes on the parent chain of a conversation payload
MaxLimit == 2       \* the largest turn limit of the page script's config
MaxAttempts == 4    \* send attempts one sendMessageWithTimeout call may make
MaxElems == 8       \* elements of the document the selector tiers query
MaxRemovals == 15   \* nodes one batched run is given to remove
MaxRoots == 2       \* user message roots the host page renders
MaxFrames == 2      \* animation frames the collapser has requested and not run
MaxOverlap == 2     \* pending timers + idle callbacks while the main thread is busy

\* ---- program constants ---------------------------------------------------
\* A floor that lets a five-message thread through.
FloorTooLow == 6 - 2

MIN_CANDIDATES == 6
NODES_PER_BATCH == 7
DEFAULT_KEEP == 10

KeepValues == {KeepLow, DEFAULT_KEEP}
LsSettings == [enabled : BOOLEAN, keep : KeepValues]
DEFAULT_SETTINGS == [enabled |-> TRUE, keep |-> DEFAULT_KEEP]

Roots == {"body", "rootA"}
ObsIds == 1..MaxObs

VARIABLES
  state,                  \* content script: let state: TrimmerState
  firstTrimCompleted,     \* trimmer.ts module flag
  onTrimCompleteCallback, \* trimmer.ts: TRUE once setOnTrimComplete(cb) ran
  observers,              \* observer id -> [target, mode, pending]
  microtasks,             \* FIFO queue of pending microtasks
  macrotasks,             \* bag of pending timers / idle callbacks / frames
  docRoot,                \* the element findConversationRoot() finds now
  dom,                    \* message nodes attached to the document
  nextId,                 \* next fresh node id
  streaming,              \* host page shows a streaming indicator
  selectorCache,          \* selectors.ts: let selectorCache
  pendingRootSync,        \* content script: let pendingRootSync
  pageObserver,           \* content script: pageObserver / navigationCleanup set
  rafId,                  \* pageObserver closure: rafId !== null
  pc,                     \* "loading" until initialize() has run, then "ready"
  lastEval,               \* history: the evaluateTrim call of the last step
  lastRemoval,            \* history: the executor step of the last step
  loopTick,               \* history: parity of the tasks the event loop has run
                          \* ("off": not counted)
  request,                \* page script: the fetch call interceptedFetch handles
  response,               \* page script: what interceptedFetch hands the host
  channel,                \* messaging: one sendMessageWithTimeout call and its port
  call,                   \* a stateless function: its name, argument and result
  run,                    \* one executeTrimBatched call: the list and its chunks
  collapse                \* user-collapse.ts: the controller and the user roots

contentVars == <<state, firstTrimCompleted, onTrimCompleteCallback, observers,
                 microtasks, macrotasks, docRoot, dom, nextId, streaming,
                 selectorCache, pendingRootSync, pageObserver, rafId, pc,
                 lastEval, lastRemoval, loopTick>>

vars == <<state, firstTrimCompleted, onTrimCompleteCallback, observers,
          microtasks, macrotasks, docRoot, dom, nextId, streaming,
          selectorCache, pendingRootSync, pageObserver, rafId, pc,
          lastEval, lastRemoval, loopTick, request, response, channel, call, run, collapse>>

pageVars == <<request, response>>

\* ---- records -------------------------------------------------------------
NoSettings == [enabled |-> FALSE, keep |-> 0]
NoEval == [kind |-> "none", captured |-> NoSettings, snap |-> NoSettings, desc |-> {}, sel |-> {},
           gate |-> "none", threw |-> FALSE, escaped |-> FALSE]
NoRemoval == [nodes |-> {}, mode |-> "none", finished |-> FALSE,
              desc |-> {}, sel |-> {}, keep |-> 0, phase |-> "IDLE",
              watched |-> {}]
FreeObserver == [target |-> {}, mode |-> "BOOT", pending |-> FALSE]
NoCache == [valid |-> FALSE, nodes |-> {}]

Task(kind, snap, o, rest, desc, sel) ==
  [kind |-> kind, snap |-> snap, obs |-> o, rest |-> rest, desc |-> desc,
   sel |-> sel]
EvalTask(snap) == Task("eval", snap, 0, {}, {}, {})
ObsTask(o) == Task("obs", NoSettings, o, {}, {}, {})
RootSyncTask == Task("rootSync", NoSettings, 0, {}, {}, {})
TrimCompleteTask == Task("trimComplete", NoSettings, 0, {}, {}, {})
RafTask == Task("raf", NoSettings, 0, {}, {}, {})
ChunkTask(snap, o, rest, desc, sel) == Task("chunk", snap, o, rest, desc, sel)

\* The world a handler runs in: the mutable program state as one value, so
\* that a handler is the composition of the functions it calls.
World ==
  [st |-> state, ftc |-> firstTrimCompleted, otc |-> onTrimCompleteCallback,
   obs |-> observers, micro |-> microtasks, macro |-> macrotasks,
   dom |-> dom, cache |-> selectorCache, prs |-> pendingRootSync,
   po |-> pageObserver, raf |-> rafId,
   ev |-> NoEval, rm |-> NoRemoval, oom |-> FALSE, tick |-> loopTick]

queueMicrotask(w, t) == [w EXCEPT !.micro = Append(@, t)]
setTimeout(w, t) == [w EXCEPT !.macro = @ (+) SetToBag({t})]
requestIdleCallback(w, t) == [w EXCEPT !.macro = @ (+) SetToBag({t})]
requestAnimationFrame(w, t) == [w EXCEPT !.macro = @ (+) SetToBag({t})]

\* ---- dom-helpers.ts --------------------------------------------------------
\* findConversationRoot: the first matching probe, else document.body; never null.
findConversationRoot == docRoot

documentContains(r) == r = "body" \/ r = docRoot

\* y: index -- the order key of a node is its index in the candidate list.
orderKey(nodes, x) == Cardinality({y \in nodes : y < x})

\* slice(-n): the newest n instead of the oldest n.
sliceLast(nodes, n) == {x \in nodes : Cardinality({y \in nodes : y > x}) < n}

\* Array.prototype.slice(0, n) of a list in document order.
sliceFirst(nodes, n) == {x \in nodes : orderKey(nodes, x) < n}

\* selectors.ts collectCandidatesFast: the first tier with enough candidates,
\* else the fallback selectors, else empty.  Never cached.
collectCandidatesFast(w) ==
  IF Cardinality(w.dom) >= MIN_CANDIDATES THEN w.dom ELSE {}

\* selectors.ts collectCandidates: a valid cache entry younger than the TTL
\* is returned as is; otherwise the document is queried and the result
\* (also the empty one) is cached.
collectCandidates(w, cacheFresh) ==
  IF w.cache.valid /\ cacheFresh
    THEN [nodes |-> w.cache.nodes, cache |-> w.cache]
    ELSE LET found == IF Cardinality(w.dom) >= MIN_CANDIDATES THEN w.dom ELSE {}
         IN [nodes |-> found, cache |-> [valid |-> TRUE, nodes |-> found]]

buildActiveThreadFast(w) ==
  LET nodes == collectCandidatesFast(w)
  IN [nodes |-> IF Cardinality(nodes) < MIN_CANDIDATES THEN {} ELSE nodes,
      cache |-> w.cache]

\* nodes.filter(shouldIncludeInThread) runs after the length check: `hidden`
\* are the nodes inside a [hidden] or [aria-hidden="true"] ancestor.
buildActiveThread(w, cacheFresh, hidden) ==
  LET c == collectCandidates(w, cacheFresh)
  IN [nodes |-> IF Cardinality(c.nodes) < MIN_CANDIDATES THEN {}
                ELSE c.nodes \ hidden,
      cache |-> c.cache]

\* stream-detector.ts isStreaming(root): a pure read of the host indicators.
isStreaming == streaming

\* ---- observers.ts ----------------------------------------------------------
disconnect(w, o) ==
  IF o = 0 THEN w ELSE [w EXCEPT !.obs[o].target = {}]

observe(w, o, root) ==
  IF o = 0 THEN w ELSE [w EXCEPT !.obs[o].target = @ \cup {root}]

\* An observer object is in use while the state record, a pending callback,
\* a removal run or a live observation target refers to it.
InUseAt(w, o, root) ==
  \/ w.st.observer = o
  \/ w.obs[o].pending
  \/ w.obs[o].target \cap {"body", root} # {}
  \/ \E t \in BagToSet(w.macro) : t.kind = "chunk" /\ t.obs = o

InUse(w, o) == InUseAt(w, o, docRoot)

FreshObserver(w) ==
  LET free == {o \in ObsIds : ~InUse(w, o)}
  IN IF free = {} THEN 0 ELSE CHOOSE o \in free : \A p \in free : o <= p

\* createAdaptiveObserver(callback, mode) followed by observe(root, OBSERVER_CONFIG)
createAdaptiveObserver(w, o, mode, root) ==
  [w EXCEPT !.obs[o] = [target |-> {root}, mode |-> mode, pending |-> FALSE]]

\* The observer's own callback: createMicrotaskObserver coalesces on a
\* `scheduled` flag and queues a microtask; createDebouncedObserver re-arms
\* one timer.
observerCallback(w, o) ==
  IF w.obs[o].pending THEN w
  ELSE LET w1 == [w EXCEPT !.obs[o].pending = TRUE]
       IN IF w.obs[o].mode = "BOOT" THEN queueMicrotask(w1, ObsTask(o))
          ELSE setTimeout(w1, ObsTask(o))

\* pageObserver callback: one animation frame at a time.
pageObserverCallback(w) ==
  IF ~w.po \/ w.raf THEN w
  ELSE requestAnimationFrame([w EXCEPT !.raf = TRUE], RafTask)

\* A mutation inside one of `roots` is delivered to every observer that
\* observes one of them (subtree: true).
RECURSIVE notifyFrom(_, _, _)
notifyFrom(w, o, roots) ==
  IF o > MaxObs THEN w
  ELSE notifyFrom(
         IF w.obs[o].target \cap roots # {} THEN observerCallback(w, o) ELSE w,
         o + 1, roots)

\* A childList mutation inside the conversation: delivered to every observer
\* on the conversation root or on body, and to the page observer on body.
documentMutated(w) ==
  pageObserverCallback(notifyFrom(w, 1, {"body", docRoot}))

\* ---- trimmer.ts ------------------------------------------------------------
createInitialState ==
  [current |-> "IDLE", observer |-> 0, trimScheduled |-> FALSE,
   conversationRoot |-> "none", settings |-> DEFAULT_SETTINGS,
   trimMode |-> "BOOT"]

shouldExitBootMode(w, elapsed) ==
  IF w.st.trimMode # "BOOT" THEN FALSE
  ELSE IF w.ftc THEN TRUE
  ELSE elapsed

markFirstTrimCompleted(w) == [w EXCEPT !.ftc = TRUE]

\* boot without its own `firstTrimCompleted = false`.
bootKeepsLatch(w) ==
  IF w.st.current # "IDLE" THEN w
  ELSE LET root == findConversationRoot
           o == FreshObserver(w)
       IN IF o = 0 THEN [w EXCEPT !.oom = TRUE]
          ELSE LET w1 == createAdaptiveObserver(w, o, "BOOT", root)
               IN [w1 EXCEPT !.st = [w.st EXCEPT !.current = "OBSERVING",
                                                 !.observer = o,
                                                 !.conversationRoot = root,
                                                 !.trimMode = "BOOT"]]

boot(w) ==
  IF w.st.current # "IDLE" THEN w
  ELSE LET root == findConversationRoot
           o == FreshObserver(w)
       IN IF o = 0 THEN [w EXCEPT !.oom = TRUE]
          ELSE LET w1 == createAdaptiveObserver(w, o, "BOOT", root)
               IN [w1 EXCEPT !.ftc = FALSE,
                             !.st = [w.st EXCEPT !.current = "OBSERVING",
                                                 !.observer = o,
                                                 !.conversationRoot = root,
                                                 !.trimMode = "BOOT"]]

\* shutdown without the `settings: state.settings` override of the spread.
shutdownResetsSettings(w) ==
  LET w1 == disconnect(w, w.st.observer)
  IN [w1 EXCEPT !.ftc = FALSE, !.st = createInitialState]

shutdown(w) ==
  LET w1 == disconnect(w, w.st.observer)
  IN [w1 EXCEPT !.ftc = FALSE,
                !.st = [createInitialState EXCEPT !.settings = w.st.settings]]

maybeTransitionToSteady(w, elapsed) ==
  IF w.st.trimMode # "BOOT" \/ ~shouldExitBootMode(w, elapsed) THEN w
  ELSE LET w1 == disconnect(w, w.st.observer)
           root == IF w.st.conversationRoot # "none"
                     THEN w.st.conversationRoot ELSE findConversationRoot
           o == FreshObserver(w1)
       IN IF o = 0 THEN [w EXCEPT !.oom = TRUE]
          ELSE LET w2 == createAdaptiveObserver(w1, o, "STEADY", root)
               IN [w2 EXCEPT !.st = [w.st EXCEPT !.trimMode = "STEADY",
                                                 !.observer = o,
                                                 !.conversationRoot = root]]

calculateKeepCount(settings) == settings.keep

reattachObserver(w, o) ==
  IF o = 0 THEN w ELSE observe(w, o, findConversationRoot)


\* The engine observers a childList mutation inside the conversation is
\* delivered to: those observing the conversation root or body.
Attached(w) == {o \in ObsIds : w.obs[o].target \cap {"body", docRoot} # {}}

\* The executor has detached `gone` from the document: that is a childList
\* mutation for every observer still attached (the engine's own observer was
\* disconnected by executeTrim) and for the page observer.
nodesReplaced(w, gone) == IF gone = {} THEN w ELSE documentMutated(w)

executeTrimSync(w, toRemove, o, desc, settings) ==
  LET gone == toRemove \cap w.dom
      w1 == [w EXCEPT !.dom = @ \ toRemove,
                      !.rm = [nodes |-> gone, mode |-> "BOOT", finished |-> TRUE,
                              desc |-> desc, sel |-> toRemove,
                              keep |-> settings.keep, phase |-> w.st.current,
                              watched |-> IF gone = {} THEN {} ELSE Attached(w)]]
      w2 == nodesReplaced(w1, gone)
      w3 == reattachObserver(w2, o)
  IN IF w3.otc THEN queueMicrotask(w3, TrimCompleteTask) ELSE w3

executeTrimBatched(w, toRemove, o, desc, settings) ==
  requestIdleCallback(w, ChunkTask(settings, o, toRemove, desc, toRemove))

\* processChunk: `count` nodes leave the list (at most NODES_PER_BATCH; fewer
\* when the time budget runs out, but at least one).
processChunk(w, t, count) ==
  LET batch == sliceFirst(t.rest, count)
      rest == t.rest \ batch
      gone == batch \cap w.dom
      w1 == [w EXCEPT !.dom = @ \ batch,
                      !.rm = [nodes |-> gone, mode |-> "STEADY",
                              finished |-> rest = {}, desc |-> t.desc,
                              sel |-> t.sel, keep |-> t.snap.keep,
                              phase |-> w.st.current,
                              watched |-> IF gone = {} THEN {} ELSE Attached(w)]]
      w2 == nodesReplaced(w1, gone)
  IN IF rest # {}
       THEN requestIdleCallback(w2, ChunkTask(t.snap, t.obs, rest, t.desc, t.sel))
       ELSE LET w3 == reattachObserver(w2, t.obs)
            IN IF w3.otc THEN setTimeout(w3, TrimCompleteTask) ELSE w3

executeTrim(w, toRemove, o, mode, desc, settings) ==
  LET w1 == disconnect(w, o)
  IN IF mode = "BOOT" THEN executeTrimSync(w1, toRemove, o, desc, settings)
     ELSE executeTrimBatched(w1, toRemove, o, desc, settings)

\* evaluateTrim(state, {settings}).  `settings` is options.settings ??
\* state.settings, resolved by the caller; `fault` says where, if anywhere,
\* the DOM throws: "early" (while reading the document) or "late" (in the
\* status update that follows the decision).  The result carries the state
\* evaluateTrim returns in .st; a caller whose call threw discards it.
evaluateTrim(w, settings, kind, cacheFresh, hidden, fault) ==
  LET st == w.st
      mode == st.trimMode
      back == [st EXCEPT !.current = "OBSERVING", !.trimScheduled = FALSE]
      rec(gate, desc, sel, threw) ==
        [kind |-> kind, captured |-> NoSettings, snap |-> settings,
         desc |-> desc, sel |-> sel, gate |-> gate, threw |-> threw,
         escaped |-> FALSE]
  IN
  IF ~settings.enabled
    THEN [w EXCEPT !.st = back, !.ev = rec("disabled", {}, {}, FALSE)]
  ELSE IF fault = "early"
    THEN [w EXCEPT !.ev = rec("threw", {}, {}, TRUE)]
  ELSE IF mode # "BOOT" /\ isStreaming
    THEN [w EXCEPT !.st = back, !.ev = rec("streaming", {}, {}, FALSE)]
  ELSE
    LET b == IF mode = "BOOT" THEN buildActiveThreadFast(w)
             ELSE buildActiveThread(w, cacheFresh, hidden)
        nodes == b.nodes
        w1 == [w EXCEPT !.cache = b.cache]
        late == fault = "late"
    IN IF Cardinality(nodes) < MIN_CANDIDATES
         THEN [w1 EXCEPT !.st = back, !.ev = rec("floor", nodes, {}, late)]
       ELSE
         LET toKeep == calculateKeepCount(settings)
             overflow == Cardinality(nodes) - toKeep
         IN IF overflow <= 0
              THEN [w1 EXCEPT !.st = back, !.ev = rec("nooverflow", nodes, {}, late)]
            ELSE
              LET toRemove == sliceFirst(nodes, overflow)
                  w2 == executeTrim(w1, toRemove, st.observer, mode, nodes, settings)
                  w3 == IF mode = "BOOT" THEN markFirstTrimCompleted(w2) ELSE w2
              IN [w3 EXCEPT !.st = back,
                            !.ev = rec("trim", nodes, toRemove, late)]

scheduleTrim(w, settingsSnapshot) ==
  IF ~w.st.settings.enabled \/ w.st.trimScheduled THEN w
  ELSE LET w1 == IF w.st.trimMode = "BOOT"
                   THEN queueMicrotask(w, EvalTask(settingsSnapshot))
                   ELSE setTimeout(w, EvalTask(settingsSnapshot))
       IN [w1 EXCEPT !.st.trimScheduled = TRUE]

\* The evaluation without its finally block: onComplete is skipped when the
\* callback throws.
executeWithoutFinally(w, t, cacheFresh, hidden, fault) ==
  LET r == evaluateTrim(w, t.snap, "scheduled", cacheFresh, hidden, fault)
  IN IF r.ev.threw THEN [r EXCEPT !.st = w.st, !.ev.captured = t.snap]
     ELSE [r EXCEPT !.st.trimScheduled = FALSE, !.ev.captured = t.snap]

\* The evaluation reading state.settings when it runs (no options.settings).
executeWithLiveSettings(w, t, cacheFresh, hidden, fault) ==
  LET r == evaluateTrim(w, w.st.settings, "scheduled", cacheFresh, hidden, fault)
      w1 == IF r.ev.threw THEN [r EXCEPT !.st = w.st] ELSE r
  IN [w1 EXCEPT !.st.trimScheduled = FALSE, !.ev.captured = t.snap]

\* executeWithErrorHandling: try { state = evaluateTrim(state, {settings}) }
\* catch { log } finally { state = {...state, trimScheduled: false} }
\* The task carries the snapshot handleMutation captured (ghost .captured).
executeWithErrorHandling(w, t, cacheFresh, hidden, fault) ==
  LET r == evaluateTrim(w, t.snap, "scheduled", cacheFresh, hidden, fault)
      w1 == IF r.ev.threw THEN [r EXCEPT !.st = w.st] ELSE r
  IN [w1 EXCEPT !.st.trimScheduled = FALSE, !.ev.captured = t.snap]

\* ---- content script ----------------------------------------------------------
requestRootSync(w) ==
  IF w.prs THEN w
  ELSE queueMicrotask([w EXCEPT !.prs = TRUE], RootSyncTask)

teardownTrimmer(w) ==
  IF w.st.current # "IDLE" \/ w.st.observer # 0 \/ w.st.conversationRoot # "none"
    THEN shutdown(w) ELSE w

\* state = evaluateTrim(state, {force: true}) is not inside a try block: when
\* it throws, the assignment does not happen and the exception leaves
\* rebindTrimmer (ghost .escaped).
rebindTrimmer(w, fault) ==
  LET w1 == shutdown(w)
  IN IF ~w1.st.settings.enabled THEN w1
     ELSE LET w2 == boot(w1)
          IN IF w2.st.current # "OBSERVING" \/ w2.st.conversationRoot = "none"
               THEN w2
               ELSE LET r == evaluateTrim(w2, w2.st.settings, "direct", FALSE,
                                          {}, fault)
                    IN IF r.ev.threw
                         THEN [r EXCEPT !.st = w2.st, !.ev.escaped = TRUE]
                         ELSE r

ensureConversationBindings(w, fault) ==
  IF ~w.st.settings.enabled THEN w
  ELSE
    LET candidateRoot == findConversationRoot
        candidateIsFallback == candidateRoot = "body"
        currentRoot == w.st.conversationRoot
        rootMissing == currentRoot = "none" \/ ~documentContains(currentRoot)
        observerMissing == w.st.observer = 0
        rootChanged == currentRoot # "none" /\ candidateRoot # currentRoot
    IN IF candidateIsFallback
         THEN IF (rootMissing \/ observerMissing)
                  /\ (w.st.current # "IDLE" \/ w.st.observer # 0
                      \/ currentRoot # "none")
                THEN teardownTrimmer(w)
                ELSE w
         ELSE IF rootMissing \/ observerMissing \/ rootChanged
                  \/ w.st.current = "IDLE"
                THEN rebindTrimmer(w, fault)
                ELSE w

\* An exception out of ensureConversationBindings ends handleMutation before
\* scheduleTrim.
handleMutation(w, fault) ==
  LET w1 == ensureConversationBindings(w, fault)
      settingsSnapshot == w1.st.settings
  IN IF w1.ev.escaped THEN w1 ELSE scheduleTrim(w1, settingsSnapshot)

\* A completion callback that does not look at the document again.
onTrimCompleteIgnored(w, fault) == w

\* The callback initialize() registers with setOnTrimComplete.
onTrimComplete(w, fault) ==
  IF w.st.current = "OBSERVING" /\ ~w.st.trimScheduled
    THEN handleMutation(w, fault) ELSE w

\* A new page observer starts with its own rafId = null.
startRootSyncWatchers(w) ==
  LET w1 == IF w.po THEN w ELSE [w EXCEPT !.po = TRUE, !.raf = FALSE]
  IN requestRootSync(w1)

\* A frame the page observer has requested stays queued.
stopRootSyncWatchers(w) ==
  IF ~w.po THEN w ELSE [w EXCEPT !.po = FALSE]

\* initialize(), after `await loadSettings()` has produced `settings`; the
\* whole body is inside try / catch.
initialize(w, settings, fault) ==
  LET w1 == [w EXCEPT !.st.settings = settings, !.otc = TRUE]
  IN IF settings.enabled
       THEN LET w2 == boot(startRootSyncWatchers(w1))
            IN IF w2.st.current = "OBSERVING"
                 THEN [handleMutation(w2, fault) EXCEPT !.ev.escaped = FALSE]
                 ELSE requestRootSync(w2)
       ELSE stopRootSyncWatchers(w1)

\* browser.storage.onChanged listener, for a change of ls_settings.
onStorageChanged(w, newSettings, fault) ==
  LET wasEnabled == w.st.settings.enabled
      nowEnabled == newSettings.enabled
      w1 == [w EXCEPT !.st.settings = newSettings]
  IN IF ~wasEnabled /\ nowEnabled
       THEN LET w2 == boot(startRootSyncWatchers(w1))
            IN IF w2.st.current = "OBSERVING" THEN handleMutation(w2, fault)
               ELSE requestRootSync(w2)
     ELSE IF wasEnabled /\ ~nowEnabled
       THEN teardownTrimmer(stopRootSyncWatchers(w1))
     ELSE IF nowEnabled
       THEN handleMutation(requestRootSync(w1), fault)
     ELSE teardownTrimmer(stopRootSyncWatchers(w1))


\* ---- page script (fetch proxy) ----------------------------------------------
\* A conversation payload {mapping, current_node, root}.  Node ids are 1, 2,
\* ...; 0 is null / undefined.  A node is [parent, children, role]; role ""
\* is a node without message.author.role.
Node(parent, children, role) ==
  [parent |-> parent, children |-> children, role |-> role]

NoData == [mapping |-> <<>>, current_node |-> 0, root |-> 0]

\* A null TrimResult.
NoResult ==
  [ok |-> FALSE, mapping |-> <<>>, current_node |-> 0, root |-> 0,
   keptCount |-> 0, totalCount |-> 0, visibleKept |-> 0, visibleTotal |-> 0]

NoRequest ==
  [enabled |-> FALSE, conversation |-> FALSE, json |-> FALSE, data |-> NoData,
   limit |-> 0]

NoResponse ==
  [served |-> "none", data |-> NoData, trimmed |-> NoResult, threw |-> FALSE]

HIDDEN_ROLES == {"system", "tool", "thinking"}

\* Every node that has a role counts as visible.
hasRole(node) == node.role # ""

isVisibleMessage(node) == node.role # "" /\ node.role \notin HIDDEN_ROLES

Max(a, b) == IF a > b THEN a ELSE b

\* while (cursor) { node = mapping[cursor]; if (!node || visited.has(cursor))
\* break; visited.add(cursor); path.push(cursor); cursor = node.parent ?? null }
RECURSIVE walkToRoot(_, _, _)
walkToRoot(mapping, cursor, path) ==
  IF \/ cursor = 0
     \/ cursor \notin DOMAIN mapping
     \/ \E i \in DOMAIN path : path[i] = cursor
    THEN path
    ELSE walkToRoot(mapping, mapping[cursor].parent, Append(path, cursor))

reverse(seq) == [i \in 1..Len(seq) |-> seq[Len(seq) + 1 - i]]

\* The turn counters of trimMapping (visibleTotal over the path, turnsKept
\* over the kept nodes): a visible node whose role differs from the last
\* counted role starts a turn.
RECURSIVE countTurns(_, _, _, _)
countTurns(mapping, ids, i, lastRole) ==
  IF i > Len(ids) THEN 0
  ELSE LET node == mapping[ids[i]]
       IN IF isVisibleMessage(node) /\ node.role # lastRole
            THEN 1 + countTurns(mapping, ids, i + 1, node.role)
            ELSE countTurns(mapping, ids, i + 1, lastRole)

\* The cut taken by counting visible nodes instead of turns.
RECURSIVE findCutByNodes(_, _, _, _, _, _)
findCutByNodes(mapping, path, i, turnCount, lastRole, effectiveLimit) ==
  IF i < 1 THEN 0
  ELSE LET node == mapping[path[i]]
       IN IF ~isVisibleMessage(node)
            THEN findCutByNodes(mapping, path, i - 1, turnCount, lastRole,
                                effectiveLimit)
            ELSE IF turnCount + 1 > effectiveLimit THEN i
            ELSE findCutByNodes(mapping, path, i - 1, turnCount + 1, node.role,
                                effectiveLimit)

\* The cut loop run forwards, for (i = 0; i < path.length; i++): turns are
\* counted from the oldest node and the cut falls after the first node of
\* turn effectiveLimit + 1.  `i` counts down as in findCutIndex; the node
\* visited is the one at position Len(path) + 1 - i.
RECURSIVE findCutForward(_, _, _, _, _, _)
findCutForward(mapping, path, i, turnCount, lastRole, effectiveLimit) ==
  IF i < 1 THEN 0
  ELSE LET j == Len(path) + 1 - i
           node == mapping[path[j]]
       IN IF ~isVisibleMessage(node)
            THEN findCutForward(mapping, path, i - 1, turnCount, lastRole,
                                effectiveLimit)
            ELSE LET n == IF node.role # lastRole THEN turnCount + 1
                          ELSE turnCount
                 IN IF n > effectiveLimit THEN j
                    ELSE findCutForward(mapping, path, i - 1, n, node.role,
                                        effectiveLimit)

\* for (i = path.length - 1; i >= 0; i--): the cut index of trimMapping.  `i`
\* is the position in the 1-based path, which is the 0-based cutIndex = i + 1
\* of the code; 0 when the loop ends without a break.
RECURSIVE findCutIndex(_, _, _, _, _, _)
findCutIndex(mapping, path, i, turnCount, lastRole, effectiveLimit) ==
  IF i < 1 THEN 0
  ELSE LET node == mapping[path[i]]
       IN IF ~isVisibleMessage(node)
            THEN findCutIndex(mapping, path, i - 1, turnCount, lastRole,
                              effectiveLimit)
            ELSE LET n == IF node.role # lastRole THEN turnCount + 1
                          ELSE turnCount
                 IN IF n > effectiveLimit THEN i
                    ELSE findCutIndex(mapping, path, i - 1, n, node.role,
                                      effectiveLimit)

trimMapping(data, limit) ==
  LET mapping == data.mapping
      currentNode == data.current_node
  IN
  IF currentNode = 0 \/ currentNode \notin DOMAIN mapping THEN NoResult
  ELSE
    LET path == reverse(walkToRoot(mapping, currentNode, <<>>))
        effectiveLimit == Max(1, limit)
        cutIndex == findCutIndex(mapping, path, Len(path), 0, "", effectiveLimit)
        keptRaw == SubSeq(path, cutIndex + 1, Len(path))
        Visible(id) == isVisibleMessage(mapping[id])
        kept == SelectSeq(keptRaw, Visible)
    IN
    IF kept = <<>> THEN NoResult
    ELSE
      LET originalRootId == path[1]
          at(id) == CHOOSE i \in DOMAIN kept : kept[i] = id
          \* the anchor is written first, the kept nodes after it: a kept
          \* node that is also the anchor gets the kept node's links
          newMapping ==
            [id \in {originalRootId} \cup {kept[i] : i \in DOMAIN kept} |->
               IF \E i \in DOMAIN kept : kept[i] = id
                 THEN [mapping[id] EXCEPT
                         !.parent = IF at(id) = 1 THEN originalRootId
                                    ELSE kept[at(id) - 1],
                         !.children = IF at(id) < Len(kept)
                                        THEN <<kept[at(id) + 1]>> ELSE <<>>]
                 ELSE [mapping[id] EXCEPT !.parent = 0,
                                          !.children = <<kept[1]>>]]
      IN [ok |-> TRUE, mapping |-> newMapping,
          current_node |-> kept[Len(kept)], root |-> originalRootId,
          keptCount |-> Len(kept), totalCount |-> Len(path),
          visibleKept |-> countTurns(mapping, kept, 1, ""),
          visibleTotal |-> countTurns(mapping, path, 1, "")]

\* getConfig().limit
getConfigLimit(req) == Max(1, req.limit)

\* `return res` / `return nativeFetch(...args)`: the server's response.
originalResponse(req, trimmed, threw) ==
  [served |-> "original", data |-> req.data, trimmed |-> trimmed,
   threw |-> threw]

\* The interceptor serving whatever trimMapping returned.
interceptedFetchUnchecked(req, fault) ==
  IF ~req.enabled \/ ~req.conversation \/ ~req.json
       \/ req.data.current_node = 0
    THEN originalResponse(req, NoResult, FALSE)
  ELSE IF fault = "early" THEN originalResponse(req, NoResult, TRUE)
  ELSE LET trimmed == trimMapping(req.data, getConfigLimit(req))
       IN [served |-> "modified",
           data |-> [req.data EXCEPT !.mapping = trimmed.mapping,
                                     !.current_node = trimmed.current_node,
                                     !.root = trimmed.root],
           trimmed |-> trimmed, threw |-> FALSE]

\* interceptedFetch, after nativeFetch has resolved.  `fault`: an exception
\* inside the try block, before ("early") or after ("late") trimMapping has
\* returned.
interceptedFetch(req, fault) ==
  IF ~req.enabled THEN originalResponse(req, NoResult, FALSE)
  ELSE IF ~req.conversation THEN originalResponse(req, NoResult, FALSE)
  ELSE IF ~req.json THEN originalResponse(req, NoResult, FALSE)
  ELSE IF req.data.current_node = 0 THEN originalResponse(req, NoResult, FALSE)
  ELSE IF fault = "early" THEN originalResponse(req, NoResult, TRUE)
  ELSE LET trimmed == trimMapping(req.data, getConfigLimit(req))
       IN IF ~trimmed.ok THEN originalResponse(req, trimmed, FALSE)
          ELSE IF fault = "late" THEN originalResponse(req, trimmed, TRUE)
          ELSE [served |-> "modified",
                data |-> [req.data EXCEPT !.mapping = trimmed.mapping,
                                          !.current_node = trimmed.current_node,
                                          !.root = trimmed.root],
                trimmed |-> trimmed, threw |-> FALSE]

\* ---- runtime messaging: records ------------------------------------------------
\* call: the promise sendMessageWithTimeout returned; attempts: the calls of
\* browser.runtime.sendMessage it made; port: the message port; listener,
\* awaiting, outcome: how far the background's listener is and what its
\* handler did; sent, sendCount, sentAfterReturn: the calls of sendResponse.
NoChannel ==
  [call |-> "idle", message |-> "", attempts |-> 0, timer |-> FALSE,
   result |-> "", port |-> "closed", answer |-> "", listener |-> "none",
   awaiting |-> "none", outcome |-> "none", sent |-> "", sendCount |-> 0,
   sentAfterReturn |-> FALSE]

NoCall == [fn |-> "none"]

\* rest: the nodes left in the list; yields: the requestIdleCallback calls
\* so far; chunks: the processChunk calls so far; last: the nodes the latest
\* chunk took off the list.
NoRun == [total |-> 0, rest |-> 0, yields |-> 0, chunks |-> 0, last |-> 0,
          finished |-> FALSE]

\* A user message root: whether it is in the message list, whether it
\* matches USER_ROOT_SELECTOR, whether its text is long, its collapse UI
\* ("none": no toggle), and whether it came to match by an attribute
\* change while the collapser was enabled.
NoRoot == [present |-> FALSE, matches |-> FALSE, long |-> FALSE, ui |-> "none",
           byAttribute |-> FALSE]

\* installUserCollapse(): records are the childList records the observer
\* has not delivered, frames the animation frames requested and not run.
NoCollapse ==
  [enabled |-> FALSE, observer |-> FALSE, pendingRoots |-> {},
   rafScheduled |-> FALSE, records |-> {}, frames |-> 0,
   roots |-> [r \in 1..MaxRoots |-> NoRoot]]

\* ---- the event loop ------------------------------------------------------------
\* The new values of the variables a handler can write.  A step that would
\* exceed a bound of the model is not taken.  Observer objects nothing refers
\* to any more are garbage: their slot is reset.
CommitWithin(w, root, limit) ==
  /\ ~w.oom
  /\ Len(w.micro) <= MaxMicro
  /\ BagCardinality(w.macro) - CopiesIn(RafTask, w.macro) <= limit
  /\ CopiesIn(RafTask, w.macro) <= 1
  /\ state' = w.st
  /\ firstTrimCompleted' = w.ftc
  /\ onTrimCompleteCallback' = w.otc
  /\ observers' = [o \in ObsIds |->
                     IF InUseAt(w, o, root) THEN w.obs[o] ELSE FreeObserver]
  /\ microtasks' = w.micro
  /\ macrotasks' = w.macro
  /\ dom' = w.dom
  /\ selectorCache' = w.cache
  /\ pendingRootSync' = w.prs
  /\ pageObserver' = w.po
  /\ rafId' = w.raf
  /\ lastEval' = w.ev
  /\ lastRemoval' = w.rm
  /\ loopTick' = w.tick
  /\ UNCHANGED <<pageVars, channel, call, run, collapse>>

CommitAt(w, root) == CommitWithin(w, root, MaxMacro)

Commit(w) == CommitAt(w, docRoot)

CommitUpTo(limit, w) == CommitWithin(w, docRoot, limit)

\* The oldest microtask runs first; a macrotask runs only on an empty
\* microtask queue.
Runnable ==
  IF microtasks # <<>> THEN {Head(microtasks)} ELSE BagToSet(macrotasks)

Ticked == CASE loopTick = "even" -> "odd"
            [] loopTick = "odd" -> "even"
            [] OTHER -> loopTick

Taken(t) ==
  IF microtasks # <<>> THEN [World EXCEPT !.micro = Tail(@), !.tick = Ticked]
  ELSE [World EXCEPT !.macro = @ (-) SetToBag({t}), !.tick = Ticked]

Faults == {"none", "early", "late"}

\* The faults that make a difference to a handler that goes through
\* ensureConversationBindings: only rebindTrimmer evaluates at once, and
\* only on an enabled engine with a recognised root that it is not bound to.
RebindFaults(w) ==
  LET candidateRoot == findConversationRoot
      currentRoot == w.st.conversationRoot
  IN IF /\ w.st.settings.enabled
        /\ candidateRoot # "body"
        /\ \/ currentRoot = "none"
           \/ ~documentContains(currentRoot)
           \/ w.st.observer = 0
           \/ candidateRoot # currentRoot
           \/ w.st.current = "IDLE"
       THEN Faults ELSE {"none"}

\* What the host hides at the moment of an evaluation: nothing, or the
\* oldest message of the document.
Hidden == {{}} \cup {{x} : x \in {y \in dom : \A z \in dom : y <= z}}

Min(a, b) == IF a < b THEN a ELSE b

PageLoaded ==
  /\ state = createInitialState
  /\ firstTrimCompleted = FALSE
  /\ onTrimCompleteCallback = FALSE
  /\ observers = [o \in ObsIds |-> FreeObserver]
  /\ microtasks = <<>>
  /\ macrotasks = EmptyBag
  /\ docRoot \in {"body", "rootA"}
  /\ \E n \in {MIN_CANDIDATES - 1, MIN_CANDIDATES + 1} :
       dom = 1..n /\ nextId = n + 1
  /\ streaming = FALSE
  /\ selectorCache = NoCache
  /\ pendingRootSync = FALSE
  /\ pageObserver = FALSE
  /\ rafId = FALSE
  /\ pc = "loading"
  /\ lastEval = NoEval
  /\ lastRemoval = NoRemoval

\* No fetch is in flight.
FetchIdle == request = NoRequest /\ response = NoResponse

\* No message is under way and no helper is being called.
ChannelIdle ==
  channel = NoChannel /\ call = NoCall /\ run = NoRun /\ collapse = NoCollapse

Init == PageLoaded /\ loopTick = "off" /\ FetchIdle /\ ChannelIdle

\* initialize(): runs once, when loadSettings() has resolved.
InitializeUpTo(limit) ==
  /\ pc = "loading"
  /\ microtasks = <<>>
  /\ \E settings \in LsSettings :
       \E fault \in RebindFaults([World EXCEPT !.st.settings = settings]) :
         CommitUpTo(limit, initialize(World, settings, fault))
  /\ pc' = "ready"
  /\ UNCHANGED <<docRoot, nextId, streaming>>

Initialize == InitializeUpTo(MaxMacro)

\* The popup wrote new settings: storage.onChanged fires in the content script.
StorageChanged ==
  /\ pc = "ready"
  /\ microtasks = <<>>
  /\ \E newSettings \in LsSettings :
       \E fault \in RebindFaults([World EXCEPT !.st.settings = newSettings]) :
         Commit(onStorageChanged(World, newSettings, fault))
  /\ UNCHANGED <<docRoot, nextId, streaming, pc>>

\* The scheduled evaluation (microtask in BOOT mode, debounce timer in STEADY).
RunEvaluationUpTo(limit) ==
  /\ \E t \in Runnable :
       /\ t.kind = "eval"
       /\ \E cacheFresh \in BOOLEAN, hidden \in Hidden, fault \in Faults :
            CommitUpTo(limit, executeWithErrorHandling(Taken(t), t, cacheFresh, hidden, fault))
  /\ UNCHANGED <<docRoot, nextId, streaming, pc>>

RunEvaluation == RunEvaluationUpTo(MaxMacro)

\* The engine observer's coalesced callback: () => { scheduled = false; callback() }
RunObserverCallbackUpTo(limit) ==
  /\ \E t \in Runnable :
       /\ t.kind = "obs"
       /\ \E fault \in RebindFaults(World) :
            CommitUpTo(limit, handleMutation([Taken(t) EXCEPT !.obs[t.obs].pending = FALSE],
                                  fault))
  /\ UNCHANGED <<docRoot, nextId, streaming, pc>>

RunObserverCallback == RunObserverCallbackUpTo(MaxMacro)

\* requestRootSync's promise reaction.
RunRootSyncUpTo(limit) ==
  /\ \E t \in Runnable :
       /\ t.kind = "rootSync"
       /\ \E fault \in RebindFaults(World) :
            CommitUpTo(limit, ensureConversationBindings([Taken(t) EXCEPT !.prs = FALSE],
                                              fault))
  /\ UNCHANGED <<docRoot, nextId, streaming, pc>>

RunRootSync == RunRootSyncUpTo(MaxMacro)

\* onTrimCompleteCallback, queued by the executor when a run has finished.
RunTrimCompleteUpTo(limit) ==
  /\ \E t \in Runnable :
       /\ t.kind = "trimComplete"
       /\ \E fault \in RebindFaults(World) : CommitUpTo(limit, onTrimComplete(Taken(t), fault))
  /\ UNCHANGED <<docRoot, nextId, streaming, pc>>

RunTrimComplete == RunTrimCompleteUpTo(MaxMacro)

\* One idle callback of executeTrimBatched.
RunChunkUpTo(limit) ==
  /\ \E t \in Runnable :
       /\ t.kind = "chunk"
       /\ \E count \in 1..Min(NODES_PER_BATCH, Cardinality(t.rest)) :
            CommitUpTo(limit, processChunk(Taken(t), t, count))
  /\ UNCHANGED <<docRoot, nextId, streaming, pc>>

RunChunk == RunChunkUpTo(MaxMacro)

\* The page observer's animation frame: rafId = null; requestRootSync('dom-mutation')
RunFrameUpTo(limit) ==
  /\ \E t \in Runnable :
       /\ t.kind = "raf"
       /\ CommitUpTo(limit, requestRootSync([Taken(t) EXCEPT !.raf = FALSE]))
  /\ UNCHANGED <<docRoot, nextId, streaming, pc>>

RunFrame == RunFrameUpTo(MaxMacro)

\* state = maybeTransitionToSteady(state, handleMutation) on an engine that
\* is observing; `elapsed` says whether BOOT_DURATION_MS have passed since
\* boot.  No function of the content script calls maybeTransitionToSteady:
\* this step is the trigger the specification describes, and no task of the
\* event loop stands for it.
TransitionToSteadyUpTo(limit) ==
  /\ microtasks = <<>>
  /\ state.current = "OBSERVING"
  /\ state.trimMode = "BOOT"
  /\ \E elapsed \in BOOLEAN :
       /\ shouldExitBootMode(World, elapsed)
       /\ CommitUpTo(limit, maybeTransitionToSteady(World, elapsed))
  /\ UNCHANGED <<docRoot, nextId, streaming, pc>>

TransitionToSteady == TransitionToSteadyUpTo(MaxMacro)

\* ---- the host page ---------------------------------------------------------------
\* The host renders `count` new messages at the end of the thread (count = 0:
\* it changes the content of a message, as token streaming does).
HostRendersUpTo(limit) ==
  /\ microtasks = <<>>
  /\ \E count \in 0..Min(1, MaxNodeId + 1 - nextId) :
       /\ nextId' = nextId + count
       /\ CommitUpTo(limit, documentMutated(
            [World EXCEPT !.dom = @ \cup (nextId..(nextId + count - 1))]))
  /\ UNCHANGED <<docRoot, streaming, pc>>

HostRenders == HostRendersUpTo(MaxMacro)

\* The host replaces the conversation container (or drops it: "body"); the
\* messages of the old conversation leave the document with it.  A root
\* element the extension still refers to is never reused for a new one.
HostSwapsRoot ==
  /\ \E r \in Roots \ {docRoot} :
       /\ r # "body" =>
            /\ state.conversationRoot # r
            /\ \A o \in ObsIds : r \notin observers[o].target
       /\ docRoot' = r
       /\ CommitAt(pageObserverCallback(
            notifyFrom([World EXCEPT !.dom = {}], 1, {"body"})), r)
  /\ UNCHANGED <<nextId, streaming, pc>>

\* The host starts or stops streaming a response.
HostStreams ==
  /\ microtasks = <<>>
  /\ streaming' = ~streaming
  /\ Commit(World)
  /\ UNCHANGED <<docRoot, nextId, pc>>

Next ==
  \/ Initialize
  \/ StorageChanged
  \/ RunEvaluation
  \/ RunObserverCallback
  \/ RunRootSync
  \/ RunTrimComplete
  \/ RunChunk
  \/ RunFrame
  \/ TransitionToSteady
  \/ HostRenders
  \/ HostSwapsRoot
  \/ HostStreams

Spec == Init /\ [][Next]_vars

\* The content script on a busy main thread, where an idle callback can wait
\* while timers fire: the user leaves the settings alone and the host only
\* renders, but one more timer or idle callback may be pending.
BusyInitialize == InitializeUpTo(MaxOverlap)
BusyEvaluation == RunEvaluationUpTo(MaxOverlap)
BusyObserverCallback == RunObserverCallbackUpTo(MaxOverlap)
BusyRootSync == RunRootSyncUpTo(MaxOverlap)
BusyTrimComplete == RunTrimCompleteUpTo(MaxOverlap)
BusyChunk == RunChunkUpTo(MaxOverlap)
BusyFrame == RunFrameUpTo(MaxOverlap)
BusyTransition == TransitionToSteadyUpTo(MaxOverlap)
BusyRenders == HostRendersUpTo(MaxOverlap)

BusyNext ==
  \/ BusyInitialize
  \/ BusyEvaluation
  \/ BusyObserverCallback
  \/ BusyRootSync
  \/ BusyTrimComplete
  \/ BusyChunk
  \/ BusyFrame
  \/ BusyTransition
  \/ BusyRenders

BusySpec == Init /\ [][BusyNext]_vars

\* The event loop runs every queued microtask, and every timer, idle callback
\* and animation frame once the microtask queue is empty; the host page and
\* the user are under no obligation.
\* Fairness is written with state predicates.  A task step flips loopTick,
\* so "infinitely many task steps" is "both parities infinitely often"; a
\* scheduled evaluation never follows itself without another step between,
\* so "infinitely many evaluations" is "lastEval is and is not a scheduled
\* evaluation, both infinitely often".
MicrotasksRun ==
  []<>(microtasks = <<>>) \/ ([]<>(loopTick = "even") /\ []<>(loopTick = "odd"))

EvaluationRunnable == \E t \in Runnable : t.kind = "eval"

EvaluationsRun ==
  <>[](~EvaluationRunnable)
    \/ ([]<>(lastEval.kind = "scheduled") /\ []<>(lastEval.kind # "scheduled"))

FairInit == PageLoaded /\ loopTick = "even" /\ FetchIdle /\ ChannelIdle

FairSpec ==
  /\ FairInit
  /\ [][Next]_vars
  /\ MicrotasksRun
  /\ EvaluationsRun

\* ---- the page script's fetches ---------------------------------------------------
Roles == {"", "system", "user", "assistant"}

\* A payload whose parent chain is n = Len(roles) nodes, oldest first: node i
\* is the child of node i - 1 and `top` is the parent link of node 1: 0
\* (null), a node of the chain (a cycle) or n + 2, an id the mapping does not
\* hold (dangling).  With `branch`, node n + 1 is a second child of node 1,
\* off the chain (a regenerated reply).
Payload(roles, top, branch, current) ==
  LET n == Len(roles)
  IN [mapping |->
        [i \in 1..(IF branch THEN n + 1 ELSE n) |->
           IF i = n + 1 THEN Node(1, <<>>, "user")
           ELSE Node(IF i = 1 THEN top ELSE i - 1,
                     (IF i = n THEN <<>> ELSE <<i + 1>>)
                       \o (IF branch /\ i = 1 THEN <<n + 1>> ELSE <<>>),
                     roles[i])],
      current_node |-> current,
      root |-> 1]

RoleSeqs == UNION {[1..n -> Roles] : n \in 1..MaxPath}

\* Payloads the server may send: chains ending in null, in a cycle or in a
\* dangling link; trees with a side branch; payloads whose current_node is
\* missing or names no node.
Payloads ==
  UNION {{Payload(r, top, FALSE, Len(r)) : top \in (0..Len(r)) \cup {Len(r) + 2}} :
           r \in RoleSeqs}
  \cup {Payload(r, 0, TRUE, Len(r)) : r \in RoleSeqs}
  \cup {Payload(r, 0, FALSE, c) :
          r \in [1..2 -> Roles], c \in {0, MaxPath + 2}}

\* window.fetch calls: conversation requests with the proxy enabled, and one
\* of each kind the interceptor passes through.
Requests ==
  {[enabled |-> TRUE, conversation |-> TRUE, json |-> TRUE, data |-> d,
    limit |-> k] : d \in Payloads, k \in 1..MaxLimit}
  \cup {[enabled |-> e, conversation |-> c, json |-> j,
         data |-> Payload(<<"", "user", "assistant">>, 0, FALSE, 3),
         limit |-> 1] : e \in BOOLEAN, c \in BOOLEAN, j \in BOOLEAN}

\* The host application calls window.fetch and the server answers.
HostFetches ==
  /\ FetchIdle
  /\ request' \in Requests
  /\ response' = NoResponse
  /\ UNCHANGED <<contentVars, channel, call, run, collapse>>

\* The rest of interceptedFetch: the response the host's call resolves to.
InterceptedFetch ==
  /\ request # NoRequest
  /\ response = NoResponse
  /\ \E fault \in Faults : response' = interceptedFetch(request, fault)
  /\ UNCHANGED <<request, contentVars, channel, call, run, collapse>>

\* The host consumes the response.
HostReadsResponse ==
  /\ response # NoResponse
  /\ request' = NoRequest
  /\ response' = NoResponse
  /\ UNCHANGED <<contentVars, channel, call, run, collapse>>

PageNext == HostFetches \/ InterceptedFetch \/ HostReadsResponse

\* The page script runs in the page, apart from the content script.
ContentIdle ==
  /\ PageLoaded
  /\ docRoot = "body"
  /\ nextId = MIN_CANDIDATES
  /\ loopTick = "off"

PageInit == ContentIdle /\ FetchIdle /\ ChannelIdle

PageSpec == PageInit /\ [][PageNext]_vars

\* ---- runtime messaging -----------------------------------------------------------
\* Only one call is followed at a time: calls share no state, and the next
\* one starts when the timer and the port of the previous one are gone.
MessageTypes == {"GET_SETTINGS", "SET_SETTINGS", "PING"}

\* A message outside the RuntimeMessage union also reaches the listener.
Messages == MessageTypes \cup {"UNKNOWN"}

\* messageHandler, the handler of the background script: it answers the
\* three message types unless the storage fails, and throws on any other.
messageHandler(type) ==
  IF type \in MessageTypes THEN {"resolves", "rejects"} ELSE {"rejects"}

\* What a handler does inside the listener call: an async handler such as
\* messageHandler returns a promise, a plain one returns or throws.
Behaviours(type) ==
  IF type \in MessageTypes THEN {"returns", "throws", "promise"}
  ELSE {"throws", "promise"}

\* What the handler answers to a message of each type.
resultFor(type) ==
  CASE type = "GET_SETTINGS" -> "settings"
    [] type = "SET_SETTINGS" -> "ok"
    [] OTHER -> "PONG"

\* Promise.race: the first settlement wins, later ones are ignored.
settle(ch, how, value) ==
  IF ch.call = "pending" THEN [ch EXCEPT !.call = how, !.result = value] ELSE ch

\* browser.runtime.sendMessage(message): one send attempt.
sendMessage(ch, message) ==
  [ch EXCEPT !.message = message, !.attempts = @ + 1, !.port = "sent"]

\* A timer callback that sends again instead of rejecting.
onTimeoutRetry(ch) ==
  IF ch.call = "pending" /\ ch.attempts < MaxAttempts
  THEN [sendMessage(ch, ch.message) EXCEPT !.listener = "none",
          !.awaiting = "none", !.outcome = "none", !.answer = ""]
  ELSE settle([ch EXCEPT !.timer = FALSE], "rejected", "Message timeout")

\* The timer callback: () => reject(new Error('Message timeout')).
onTimeout(ch) ==
  settle([ch EXCEPT !.timer = FALSE], "rejected", "Message timeout")

\* sendMessageWithTimeout: one send attempt raced against one timer.
sendMessageWithTimeout(message) ==
  [sendMessage(NoChannel, message) EXCEPT !.call = "pending", !.timer = TRUE]

\* sendResponse(response): the browser carries the answer back to the sender.
sendResponse(ch, value) ==
  [ch EXCEPT !.sent = value, !.sendCount = @ + 1,
             !.sentAfterReturn = (ch.listener = "returned"),
             !.port = IF @ = "open" \/ @ = "sent" THEN "answered" ELSE @,
             !.answer = IF ch.port = "open" \/ ch.port = "sent" THEN value ELSE @]

\* A listener whose async function has no catch block.
listenerWithoutCatch(ch, behaviour) ==
  LET called == [ch EXCEPT !.listener = "called", !.outcome = behaviour]
      ran == CASE behaviour = "throws" -> called
               [] behaviour = "returns" -> [called EXCEPT !.awaiting = "value"]
               [] OTHER -> [called EXCEPT !.awaiting = "promise"]
  IN [ran EXCEPT !.listener = "returned",
                 !.port = IF @ = "sent" THEN "open" ELSE @]

\* The listener createMessageHandler returns, called by the browser with a
\* message.  The async function runs up to its first await inside the call:
\* a handler that throws there lands in the catch block at once; a value or
\* a promise is awaited and the function goes on in a later microtask.
\* Then the listener returns true, which keeps the port open.
createMessageHandler(ch, behaviour) ==
  LET called == [ch EXCEPT !.listener = "called", !.outcome = behaviour]
      ran == CASE behaviour = "throws" -> sendResponse(called, "error")
               [] behaviour = "returns" -> [called EXCEPT !.awaiting = "value"]
               [] OTHER -> [called EXCEPT !.awaiting = "promise"]
  IN [ran EXCEPT !.listener = "returned",
                 !.port = IF @ = "sent" THEN "open" ELSE @]

\* The rest of the async function, after the await: sendResponse(response),
\* or the catch block when the promise was rejected.
afterAwait(ch, fate) ==
  LET resumed == [ch EXCEPT !.awaiting = "none",
                            !.outcome = IF ch.awaiting = "promise" THEN fate ELSE @]
  IN IF ch.awaiting = "promise" /\ fate = "rejects"
     THEN sendResponse(resumed, "error")
     ELSE sendResponse(resumed, resultFor(ch.message))

\* The popup (or the content script) sends a message.
Send ==
  /\ channel.call # "pending"
  /\ ~channel.timer
  /\ channel.port \in {"closed", "lost"}
  /\ channel.awaiting = "none"
  /\ \E message \in Messages : channel' = sendMessageWithTimeout(message)
  /\ UNCHANGED <<contentVars, pageVars, call, run, collapse>>

\* The browser hands the message to the background's listener; the handler
\* given to createMessageHandler returns, throws, or returns a promise.
DeliverMessage ==
  /\ channel.port = "sent"
  /\ \E behaviour \in Behaviours(channel.message) :
       channel' = createMessageHandler(channel, behaviour)
  /\ UNCHANGED <<contentVars, pageVars, call, run, collapse>>

\* The awaited value is there, or the handler's promise settles.
ResumeHandler ==
  /\ channel.awaiting # "none"
  /\ \E fate \in messageHandler(channel.message) :
       channel' = afterAwait(channel, fate)
  /\ UNCHANGED <<contentVars, pageVars, call, run, collapse>>

\* The answer reaches the sender: its sendMessage promise resolves.
AnswerArrives ==
  /\ channel.port = "answered"
  /\ channel' = [settle(channel, "resolved", channel.answer) EXCEPT !.port = "closed"]
  /\ UNCHANGED <<contentVars, pageVars, call, run, collapse>>

\* Nobody answers (the service worker is restarting): the browser resolves
\* the sendMessage promise with undefined.
AnswerUndefined ==
  /\ channel.port = "sent"
  /\ channel' = [settle(channel, "resolved", "undefined") EXCEPT !.port = "lost"]
  /\ UNCHANGED <<contentVars, pageVars, call, run, collapse>>

\* There is no receiving end: the sendMessage promise is rejected.
SendFails ==
  /\ channel.port = "sent"
  /\ channel' = [settle(channel, "rejected", "Connection failed") EXCEPT !.port = "lost"]
  /\ UNCHANGED <<contentVars, pageVars, call, run, collapse>>

\* timeoutMs have passed.
TimeoutFires ==
  /\ channel.timer
  /\ channel' = onTimeout(channel)
  /\ UNCHANGED <<contentVars, pageVars, call, run, collapse>>

MsgNext ==
  \/ Send
  \/ DeliverMessage
  \/ ResumeHandler
  \/ AnswerArrives
  \/ AnswerUndefined
  \/ SendFails
  \/ TimeoutFires

\* The content script and the page script stay as loaded.
IdleInit == ContentIdle /\ FetchIdle /\ ChannelIdle

MsgSpec == IdleInit /\ [][MsgNext]_vars

\* ---- stateless helpers -------------------------------------------------------------
\* storage-schema.ts.  A settings object read from storage: `supplied` are
\* the fields it has, `on` the boolean fields that are true.
Fields == {"version", "enabled", "keep", "preserveSystem", "pauseOnScrollUp", "debug"}
KeepInputs == {0 - 10, 0, 1, 50, 100, 1000}
NullSettings == [null |-> TRUE, supplied |-> {}, on |-> {}, version |-> 0, keep |-> 0]

SettingsInputs ==
  {NullSettings} \cup
  UNION {{[null |-> FALSE, supplied |-> f, on |-> o, version |-> v, keep |-> k] :
            o \in SUBSET (f \ {"version", "keep"}),
            v \in IF "version" \in f THEN {1, 99} ELSE {0},
            k \in IF "keep" \in f THEN KeepInputs ELSE {0}} : f \in SUBSET Fields}

\* input.field ?? default, for a boolean field.
orDefault(input, field, default) ==
  IF field \in input.supplied THEN field \in input.on ELSE default

validateSettings(input) ==
  IF input.null \/ "version" \notin input.supplied \/ input.version # 1
  THEN [version |-> 1, enabled |-> TRUE, keep |-> DEFAULT_KEEP,
        preserveSystem |-> TRUE, pauseOnScrollUp |-> TRUE, debug |-> FALSE]
  ELSE [version |-> 1,
        enabled |-> orDefault(input, "enabled", TRUE),
        keep |-> Max(1, Min(100, IF "keep" \in input.supplied THEN input.keep
                                 ELSE DEFAULT_KEEP)),
        preserveSystem |-> orDefault(input, "preserveSystem", TRUE),
        pauseOnScrollUp |-> orDefault(input, "pauseOnScrollUp", TRUE),
        debug |-> orDefault(input, "debug", FALSE)]

\* The content script's window listeners.  An event is an error or an
\* unhandled rejection of the extension or of the host page; hasPrefix: its
\* message holds 'LS:', hasFilename: its filename holds 'light-session'.
\* The result is whether the listener called event.preventDefault().
WindowEvents ==
  {e \in [type : {"error", "unhandledrejection"}, origin : {"extension", "host"},
          hasPrefix : BOOLEAN, hasFilename : BOOLEAN] :
     e.hasFilename => (e.origin = "extension" /\ e.type = "error")}

onWindowEvent(event) ==
  IF event.type = "error" THEN event.hasPrefix \/ event.hasFilename ELSE TRUE

\* selectors.ts.  The document's elements are 1..MaxElems in document order;
\* an element of `nested` is the child of the element before it, the others
\* are children of the conversation container (0: no matched ancestor).
parentElement(nested, el) == IF el \in nested THEN el - 1 ELSE 0

\* The while loop of filterToOutermostElements: is `parent` or an element
\* above it in the list?
RECURSIVE hasAncestorIn(_, _, _)
hasAncestorIn(nested, elementSet, parent) ==
  IF parent = 0 THEN FALSE
  ELSE IF parent \in elementSet THEN TRUE
  ELSE hasAncestorIn(nested, elementSet, parentElement(nested, parent))

\* A filter that looks at the parent only.
filterByParent(nested, elements) ==
  {el \in elements : parentElement(nested, el) \notin elements}

filterToOutermostElements(nested, elements) ==
  IF Cardinality(elements) <= 1 THEN elements
  ELSE {el \in elements :
          ~hasAncestorIn(nested, elements, parentElement(nested, el))}

\* collectCandidates on an invalid cache: the loop over SELECTOR_TIERS and
\* then the fallback selectors (tier 4; the code names it null).  matches[i]
\* are the elements tier i's selectors find that pass isLikelyMessage.
RECURSIVE queryTiers(_, _, _)
queryTiers(nested, matches, i) ==
  IF i > Len(matches) THEN [nodes |-> {}, tier |-> 0]
  ELSE LET outermost == filterToOutermostElements(nested, matches[i])
       IN IF Cardinality(outermost) >= MIN_CANDIDATES
          THEN [nodes |-> outermost, tier |-> i]
          ELSE queryTiers(nested, matches, i + 1)

\* A document and what the tiers match in it: the tiers before `first`
\* find the first two of the matched elements only.
TierInput(nested, matched, first) ==
  [nested |-> nested,
   matches |-> [i \in 1..4 |-> IF i < first THEN matched \cap (1..2) ELSE matched]]

ValidateSettings ==
  /\ call = NoCall
  /\ \E input \in SettingsInputs :
       call' = [fn |-> "validateSettings", arg |-> input,
                result |-> validateSettings(input)]
  /\ UNCHANGED <<contentVars, pageVars, channel, run, collapse>>

WindowEvent ==
  /\ call = NoCall
  /\ \E event \in WindowEvents :
       call' = [fn |-> "onWindowEvent", arg |-> event,
                result |-> onWindowEvent(event)]
  /\ UNCHANGED <<contentVars, pageVars, channel, run, collapse>>

CollectCandidates ==
  /\ call = NoCall
  /\ \E nested \in SUBSET (2..MaxElems), matched \in SUBSET (1..MaxElems),
        first \in 1..4 :
       LET input == TierInput(nested, matched, first)
       IN call' = [fn |-> "collectCandidates", arg |-> input,
                   result |-> queryTiers(input.nested, input.matches, 1)]
  /\ UNCHANGED <<contentVars, pageVars, channel, run, collapse>>

Return ==
  /\ call # NoCall
  /\ call' = NoCall
  /\ UNCHANGED <<contentVars, pageVars, channel, run, collapse>>

HelperNext == ValidateSettings \/ WindowEvent \/ CollectCandidates \/ Return

HelperSpec == IdleInit /\ [][HelperNext]_vars

\* ---- the batched executor, one run ------------------------------------------------
\* executeTrimBatched(toRemove): the first chunk is requested, nothing is
\* removed yet.
startBatched(total) ==
  [NoRun EXCEPT !.total = total, !.rest = total, !.yields = 1]

\* A chunk without the NODES_PER_BATCH bound.
processUncapped(r, worked) ==
  [r EXCEPT !.rest = @ - worked, !.chunks = @ + 1, !.last = worked,
            !.yields = IF r.rest - worked > 0 THEN @ + 1 ELSE @,
            !.finished = (r.rest - worked = 0)]

\* One processChunk call: the while loop takes nodes off the list until
\* NODES_PER_BATCH are processed, the list is empty, or the time budget is
\* used up (`worked`: the nodes the budget allows, at least one, because
\* the budget is checked after a node).  Then the next chunk is requested
\* or the run is complete.
processNodes(r, worked) ==
  LET processed == Min(worked, Min(NODES_PER_BATCH, r.rest))
  IN [r EXCEPT !.rest = @ - processed, !.chunks = @ + 1, !.last = processed,
               !.yields = IF r.rest - processed > 0 THEN @ + 1 ELSE @,
               !.finished = (r.rest - processed = 0)]

ExecuteTrimBatched ==
  /\ run = NoRun \/ run.finished
  /\ \E total \in 1..MaxRemovals : run' = startBatched(total)
  /\ UNCHANGED <<contentVars, pageVars, channel, call, collapse>>

ProcessChunk ==
  /\ run.rest > 0
  /\ \E worked \in 1..run.rest : run' = processNodes(run, worked)
  /\ UNCHANGED <<contentVars, pageVars, channel, call, collapse>>

BatchNext == ExecuteTrimBatched \/ ProcessChunk

BatchSpec == IdleInit /\ [][BatchNext]_vars

\* ---- user-collapse.ts ----------------------------------------------------------------
\* The page has a <main>, and every user root has a bubble with a text
\* container.
scheduleProcess(c) ==
  IF c.rafScheduled THEN c
  ELSE [c EXCEPT !.rafScheduled = TRUE, !.frames = @ + 1]

\* The observer is created with { childList: true, subtree: true }; then
\* the initial scan of the container.
attachObserver(c) ==
  LET initial == {r \in 1..MaxRoots : c.roots[r].present /\ c.roots[r].matches}
      c1 == [c EXCEPT !.observer = TRUE, !.records = {},
                      !.pendingRoots = @ \cup initial]
  IN IF c1.pendingRoots # {} THEN scheduleProcess(c1) ELSE c1

enableFn(c) ==
  IF c.enabled THEN c ELSE attachObserver([c EXCEPT !.enabled = TRUE])

\* removeCollapseUi for every root that matches USER_ROOT_SELECTOR now.
teardownFn(c) ==
  [c EXCEPT !.enabled = FALSE, !.rafScheduled = FALSE, !.pendingRoots = {},
            !.observer = FALSE, !.records = {},
            !.roots = [r \in 1..MaxRoots |->
                         IF c.roots[r].present /\ c.roots[r].matches
                         THEN [c.roots[r] EXCEPT !.ui = "none"] ELSE c.roots[r]]]

processUserMessageRoot(root) ==
  IF ~root.long THEN [root EXCEPT !.ui = "none"]
  ELSE [root EXCEPT !.ui = IF @ = "none" THEN "collapsed" ELSE @]

\* The animation frame scheduleProcess requested.
processPending(c) ==
  LET c1 == [c EXCEPT !.rafScheduled = FALSE, !.frames = @ - 1]
  IN IF ~c1.enabled THEN c1
     ELSE [c1 EXCEPT !.pendingRoots = {},
                     !.roots = [r \in 1..MaxRoots |->
                                  IF r \in c.pendingRoots
                                  THEN processUserMessageRoot(c.roots[r])
                                  ELSE c.roots[r]]]

\* The MutationObserver callback: the added nodes that match
\* USER_ROOT_SELECTOR when the callback runs become pending.
onMutations(c) ==
  LET c1 == [c EXCEPT !.records = {},
                      !.pendingRoots =
                         @ \cup {r \in c.records : c.roots[r].matches}]
  IN IF c1.pendingRoots # {} THEN scheduleProcess(c1) ELSE c1

\* The delegated click handler, for a click on the toggle of root r.
onDocClick(c, r) ==
  IF ~c.observer \/ c.roots[r].ui = "none" THEN c
  ELSE [c EXCEPT !.roots[r].ui = IF @ = "expanded" THEN "collapsed" ELSE "expanded"]

\* The content script turns the collapser on and off with the setting.
EnableCollapse ==
  /\ collapse.frames < MaxFrames
  /\ collapse' = enableFn(collapse)
  /\ UNCHANGED <<contentVars, pageVars, channel, call, run>>

TeardownCollapse ==
  /\ collapse' = teardownFn(collapse)
  /\ UNCHANGED <<contentVars, pageVars, channel, call, run>>

RunCollapseFrame ==
  /\ collapse.frames > 0
  /\ collapse' = processPending(collapse)
  /\ UNCHANGED <<contentVars, pageVars, channel, call, run>>

RunCollapseObserver ==
  /\ collapse.records # {}
  /\ collapse' = onMutations(collapse)
  /\ UNCHANGED <<contentVars, pageVars, channel, call, run>>

ClickToggle ==
  /\ collapse.enabled
  /\ \E r \in 1..MaxRoots : collapse' = onDocClick(collapse, r)
  /\ UNCHANGED <<contentVars, pageVars, channel, call, run>>

\* The host page inserts a message root into the message list: a childList
\* record for the observer, if one is attached.
HostInsertsRoot ==
  /\ \E r \in 1..MaxRoots, matches \in BOOLEAN, long \in BOOLEAN :
       /\ ~collapse.roots[r].present
       /\ collapse' =
            [collapse EXCEPT
               !.roots[r] = [NoRoot EXCEPT !.present = TRUE,
                                           !.matches = matches, !.long = long],
               !.records = IF collapse.observer THEN @ \cup {r} ELSE @]
  /\ UNCHANGED <<contentVars, pageVars, channel, call, run>>

\* The host page sets data-message-id or data-message-author-role on a root
\* that is in the list already (it recycles the element): the root matches
\* USER_ROOT_SELECTOR from now on.  An observer of childList gets no record.
HostSetsAttribute ==
  /\ \E r \in 1..MaxRoots :
       /\ collapse.roots[r].present
       /\ ~collapse.roots[r].matches
       /\ collapse' = [collapse EXCEPT !.roots[r].matches = TRUE,
                                       !.roots[r].byAttribute = collapse.enabled]
  /\ UNCHANGED <<contentVars, pageVars, channel, call, run>>

CollapseNext ==
  \/ EnableCollapse
  \/ TeardownCollapse
  \/ RunCollapseFrame
  \/ RunCollapseObserver
  \/ ClickToggle
  \/ HostInsertsRoot
  \/ HostSetsAttribute

CollapseSpec == IdleInit /\ [][CollapseNext]_vars

\* ---- properties ------------------------------------------------------------------
\* Scheduled evaluations that have not run yet: queued microtasks and timers.
PendingEvaluations ==
  Cardinality({i \in DOMAIN microtasks : microtasks[i].kind = "eval"})
  + BagCardinality([t \in {u \in BagToSet(macrotasks) : u.kind = "eval"}
                      |-> macrotasks[t]])

\* C1: in every reachable state the state record holds an observer handle
\* if and only if its phase is OBSERVING.
ObserverIffObserving == (state.observer # 0) <=> (state.current = "OBSERVING")

\* C2: at any time at most one scheduled trim evaluation (queued microtask or
\* debounce timer that has not run yet) exists.
AtMostOneScheduledEvaluation == PendingEvaluations <= 1

\* C3: trimScheduled goes from true to false only in a step that completes a
\* scheduled evaluation; shutdown, rebind and boot never clear it.
ClearedOnlyByCompletion ==
  [][(state.trimScheduled /\ ~state'.trimScheduled)
       => lastEval'.kind = "scheduled"]_vars

\* C4: whenever trimScheduled is true it eventually becomes false again, also
\* when the evaluation callback throws.
FlagEventuallyCleared == state.trimScheduled ~> ~state.trimScheduled

\* A scheduled evaluation has thrown and the flag is false afterwards.
FlagClearedAfterThrow ==
  /\ lastEval.kind = "scheduled"
  /\ lastEval.threw
  /\ ~state.trimScheduled

\* C5: a scheduled evaluation decides with the settings captured when it was
\* scheduled: the enabled gate and the keep count are the snapshot's.
SnapshotDecides ==
  lastEval.kind = "scheduled" =>
    LET c == lastEval.captured
        n == Cardinality(lastEval.desc)
    IN /\ lastEval.snap = c
       /\ (lastEval.gate = "disabled") <=> ~c.enabled
       /\ lastEval.gate = "trim" =>
            n > c.keep /\ Cardinality(lastEval.sel) = n - c.keep
       /\ lastEval.gate = "nooverflow" => n <= c.keep

\* A scheduled evaluation trims although the settings have changed since it
\* was scheduled.
SnapshotRaced ==
  /\ lastEval.kind = "scheduled"
  /\ lastEval.gate = "trim"
  /\ lastEval.captured # state.settings

\* C6: once the disable has been processed (state.settings.enabled is false)
\* no message node is removed until the extension is enabled again.
NoRemovalWhileDisabled == lastRemoval.nodes # {} => state.settings.enabled

\* C7: in STEADY mode no message node is removed while the streaming detector
\* reports true, in any batch of a removal run.
NoSteadyRemovalWhileStreaming ==
  (state.trimMode = "STEADY" /\ lastRemoval.mode = "STEADY"
     /\ lastRemoval.nodes # {}) => ~streaming

\* C8: an evaluation whose thread builder produced fewer than 6 descriptors
\* removes nothing, whatever the keep count and the mode.
FloorRemovesNothing ==
  (lastEval.kind # "none" /\ Cardinality(lastEval.desc) < 6) =>
    (lastEval.sel = {} /\ lastRemoval.nodes = {})

\* The floor decides: fewer than 6 descriptors, but more than the keep count.
FloorDecides ==
  /\ lastEval.gate = "floor"
  /\ Cardinality(lastEval.desc) > lastEval.snap.keep

\* C9: an evaluation with n descriptors and keep count k < n selects exactly
\* the n-k descriptors with the smallest order keys; a run removes selected
\* nodes only, and when it has completed no selected node is left and the
\* unselected descriptors are the k with the largest order keys.
OldestSelectedNewestSurvive ==
  /\ lastEval.gate = "trim" =>
       LET desc == lastEval.desc
           n == Cardinality(desc)
           k == lastEval.snap.keep
       IN lastEval.sel =
            {x \in desc : Cardinality({y \in desc : y < x}) < n - k}
  /\ lastRemoval.nodes \subseteq lastRemoval.sel
  /\ lastRemoval.finished =>
       LET desc == lastRemoval.desc
       IN /\ dom \cap lastRemoval.sel = {}
          /\ desc \ lastRemoval.sel =
               {x \in desc : Cardinality({y \in desc : y > x}) < lastRemoval.keep}

\* A batched run of several nodes has completed and its survivors are in
\* the document.
BatchedRunCompleted ==
  /\ lastRemoval.finished
  /\ lastRemoval.mode = "STEADY"
  /\ Cardinality(lastRemoval.sel) >= 2
  /\ dom \cap lastRemoval.desc # {}

\* C10: while the document offers only the body fallback the engine is not
\* left OBSERVING bound to it once the event loop has drained.
NotLeftBoundToFallback ==
  ~(/\ docRoot = "body"
    /\ state.current = "OBSERVING"
    /\ state.conversationRoot = "body"
    /\ microtasks = <<>>
    /\ macrotasks = EmptyBag)

\* C11: no engine observer is attached to the conversation when the executor
\* replaces a node, and the observer a batched run has disconnected stays
\* disconnected while a batch of that run is still to come.
NoObserverDuringRun ==
  /\ lastRemoval.nodes # {} => lastRemoval.watched = {}
  /\ \A t \in BagToSet(macrotasks) :
       (t.kind = "chunk" /\ t.obs # 0) => observers[t.obs].target = {}

\* C12: an observing engine whose first trim has completed is in STEADY mode
\* by the time the work that trim scheduled has drained from the event loop.
LeavesBootMode ==
  ~(/\ state.current = "OBSERVING"
    /\ state.trimMode = "BOOT"
    /\ firstTrimCompleted
    /\ microtasks = <<>>
    /\ macrotasks = EmptyBag)

\* C20: an exception thrown by a trim evaluation never leaves the callback
\* that ran the evaluation, whether the evaluation was scheduled, ran right
\* after a rebind or followed a completed trim.
NoExceptionEscapes == lastEval.threw => ~lastEval.escaped

\* ---- properties of the page script -----------------------------------------------
\* The node k parent links above `id` (0: the chain has ended at null; an id
\* outside the mapping: the chain has left the mapping).
RECURSIVE Above(_, _, _)
Above(mapping, id, k) ==
  IF k = 0 \/ id \notin DOMAIN mapping THEN id
  ELSE Above(mapping, mapping[id].parent, k - 1)

\* Where the chain from current_node is after as many links as the mapping
\* has nodes: still inside the mapping only if it has revisited a node.
ChainEnd(data) ==
  Above(data.mapping, data.current_node, Cardinality(DOMAIN data.mapping))

Cyclic(data) ==
  data.current_node \in DOMAIN data.mapping /\ ChainEnd(data) \in DOMAIN data.mapping

Dangling(data) ==
  /\ data.current_node \in DOMAIN data.mapping
  /\ ChainEnd(data) # 0
  /\ ChainEnd(data) \notin DOMAIN data.mapping

\* The nodes of the chain from current_node, as far as they are distinct nodes
\* of the mapping, oldest first.
ChainLength(data) ==
  Cardinality({k \in 0..(Cardinality(DOMAIN data.mapping) - 1) :
     /\ Above(data.mapping, data.current_node, k) \in DOMAIN data.mapping
     /\ \A j \in 0..(k - 1) :
          Above(data.mapping, data.current_node, j)
            # Above(data.mapping, data.current_node, k)})

ChainOf(data) ==
  [i \in 1..ChainLength(data) |->
     Above(data.mapping, data.current_node, ChainLength(data) - i)]

ShownRole(role) == role \notin {"", "system", "tool", "thinking"}

\* The visible nodes of the chain, oldest first, and their turns: a turn is a
\* maximal run of visible nodes of one role.
VisibleChain(data) ==
  LET Shown(id) == ShownRole(data.mapping[id].role)
  IN SelectSeq(ChainOf(data), Shown)

TurnOf(data, i) ==
  LET vis == VisibleChain(data)
  IN 1 + Cardinality({j \in 2..i :
           data.mapping[vis[j]].role # data.mapping[vis[j - 1]].role})

Turns(data) ==
  IF VisibleChain(data) = <<>> THEN 0 ELSE TurnOf(data, Len(VisibleChain(data)))

\* The kept nodes of a result: every node but the anchor, and the anchor too
\* when it was re-linked as a kept node.
KeptOf(result) ==
  (DOMAIN result.mapping \ {result.root})
    \cup (IF result.mapping[result.root].parent # 0 THEN {result.root} ELSE {})

\* trimMapping has run on the request and what it returned is served.
Trimmed == response.served = "modified"

\* C13: when the parent chain from current_node revisits a node, trimMapping
\* returns null and the original payload is served.
CycleReturnsNull ==
  (response.served # "none" /\ Cyclic(request.data)) =>
    (~response.trimmed.ok /\ response.data = request.data)

\* C14: when a node of the chain from current_node names a parent the mapping
\* does not hold, the original payload is served unmodified.
DanglingServesOriginal ==
  (response.served # "none" /\ Dangling(request.data)) =>
    (response.served = "original" /\ response.data = request.data)

\* C15: in a non-null result the parent links from the new current node visit
\* every kept node once, newest to oldest, and end at the root, whose parent is
\* null; a node's children are its successor in that chain alone (none for
\* the current node); no node is its own parent.
ResultIsSimpleChain ==
  response.trimmed.ok =>
    LET m == response.trimmed.mapping
        cur == response.trimmed.current_node
        n == Cardinality(DOMAIN m)
        at(k) == Above(m, cur, k)
        old(id) == CHOOSE k \in 0..MaxPath :
                     Above(request.data.mapping, request.data.current_node, k) = id
    IN /\ \A id \in DOMAIN m : m[id].parent # id
       /\ {at(k) : k \in 0..(n - 1)} = DOMAIN m
       /\ KeptOf(response.trimmed) \subseteq {at(k) : k \in 0..(n - 1)}
       /\ at(n - 1) = response.trimmed.root
       /\ at(n) = 0
       /\ m[cur].children = <<>>
       /\ \A k \in 1..(n - 1) : m[at(k)].children = <<at(k - 1)>>
       /\ \A k \in 1..(n - 1) : old(at(k - 1)) < old(at(k))

\* C16: the kept nodes are exactly the visible nodes of the last min(T, k)
\* turns of the chain: no turn is kept in part, no node of an older turn is
\* kept.
KeepsLastTurnsWhole ==
  Trimmed =>
    LET data == request.data
        vis == VisibleChain(data)
        T == Turns(data)
        k == request.limit
    IN KeptOf(response.trimmed) =
         {vis[i] : i \in {j \in DOMAIN vis : TurnOf(data, j) > T - Min(T, k)}}

\* A turn of several nodes is kept whole while an older turn is dropped.
WholeTurnKept ==
  /\ Trimmed
  /\ response.trimmed.keptCount > response.trimmed.visibleKept
  /\ response.trimmed.visibleTotal > response.trimmed.visibleKept

\* C17: a node with a hidden role (or none) is never a kept node and never
\* counts as a turn: the turns counted are those of the visible nodes alone.
HiddenNeverKeptNorCounted ==
  Trimmed =>
    /\ \A id \in KeptOf(response.trimmed) :
         ShownRole(response.trimmed.mapping[id].role)
    /\ response.trimmed.keptCount = Cardinality(KeptOf(response.trimmed))
    /\ response.trimmed.visibleTotal = Turns(request.data)
    /\ response.trimmed.visibleKept = Min(Turns(request.data), request.limit)

\* A hidden node lies between two kept nodes of the chain.
HiddenInsideKeptRange ==
  /\ Trimmed
  /\ \E a \in KeptOf(response.trimmed), c \in KeptOf(response.trimmed) :
       \E h \in DOMAIN request.data.mapping :
         /\ a < h /\ h < c
         /\ request.data.mapping[h].role \in {"system", "tool", "thinking"}
         /\ \E i \in DOMAIN ChainOf(request.data) : ChainOf(request.data)[i] = h

\* C18: when the chain holds no more turns than the limit, what is served is
\* the payload as it came: same mapping, same current node, same root.
NoOverflowServesInput ==
  (response.served # "none" /\ Turns(request.data) <= request.limit) =>
    response.data = request.data

\* C19: when trimMapping returns null or the processing throws, the original
\* response is served; a served rebuilt payload is the whole non-empty
\* result of trimMapping.
FallsBackToOriginal ==
  /\ (response.served # "none" /\ (~response.trimmed.ok \/ response.threw)) =>
       (response.served = "original" /\ response.data = request.data)
  /\ response.served = "modified" =>
       /\ response.trimmed.ok
       /\ response.data.mapping = response.trimmed.mapping
       /\ response.data.current_node = response.trimmed.current_node
       /\ response.data.root = response.trimmed.root
       /\ response.data.current_node \in DOMAIN response.data.mapping

\* trimMapping has run on a payload none of whose nodes is visible, returned
\* null, and the original was served.
NothingSurvivedFiltering ==
  /\ response.served = "original"
  /\ request.enabled /\ request.conversation /\ request.json
  /\ request.data.current_node \in DOMAIN request.data.mapping
  /\ VisibleChain(request.data) = <<>>
  /\ ~response.threw

\* C21: a send attempt that is not answered within the timeout ends the call
\* with the timeout error after exactly one send attempt: once the timer has
\* fired the call is no longer pending, and a call rejected with the timeout
\* error made one attempt.
TimeoutIsTerminal ==
  /\ channel.call = "pending" => channel.timer
  /\ channel.result = "Message timeout" =>
       channel.call = "rejected" /\ channel.attempts = 1

\* The listener kept the port open, its handler never answered, and the
\* timer ended the call.
TimedOutUnanswered ==
  /\ channel.call = "rejected"
  /\ channel.result = "Message timeout"
  /\ channel.port = "open"
  /\ channel.sendCount = 0

\* C22: an undefined answer is retried: the call resolves only with a defined
\* answer, makes at most four attempts, and after four undefined answers it
\* is rejected as not responding.
UndefinedIsRetried ==
  /\ channel.call = "resolved" => channel.result # "undefined"
  /\ channel.attempts <= MaxAttempts
  /\ (channel.call # "pending" /\ channel.port = "lost"
        /\ channel.result \notin {"Message timeout", "Connection failed"})
       => channel.result = "not responding" /\ channel.attempts = MaxAttempts

\* C23 as stated: the listener returns true and only then calls sendResponse.
RespondsAfterReturning ==
  channel.sendCount > 0 => channel.sentAfterReturn

\* C23: the listener always returns true and answers once, as soon as the
\* handler is finished: with the handler's result when it returned or
\* resolved, with an error object when it threw or rejected.  The answer
\* follows the return, except that a handler that throws synchronously is
\* answered inside the listener call, before it returns.
ListenerAlwaysAnswers ==
  /\ channel.listener \in {"none", "returned"}
  /\ channel.sendCount = IF channel.listener = "returned" /\ channel.awaiting = "none"
                         THEN 1 ELSE 0
  /\ channel.sendCount = 1 =>
       /\ channel.outcome \in {"returns", "resolves"} =>
            channel.sent = resultFor(channel.message)
       /\ channel.outcome \in {"throws", "rejects"} => channel.sent = "error"
       /\ channel.outcome \in {"returns", "resolves", "throws", "rejects"}
       /\ channel.sentAfterReturn <=> channel.outcome # "throws"

\* A handler threw synchronously and the sender got the error object.
SyncThrowAnswered ==
  /\ channel.outcome = "throws"
  /\ channel.sent = "error"
  /\ channel.call = "resolved"
  /\ channel.result = "error"

\* C24: the window listeners prevent the default handling of an error or of
\* an unhandled rejection only when it comes from the extension.
GuardSparesHostPage ==
  (call.fn = "onWindowEvent" /\ call.result) => call.arg.origin = "extension"

\* C27: validateSettings returns version 1 and the supplied keep clamped to
\* [1, 100], or the default keep when none is supplied, whatever else the
\* input holds.
ValidateClampsKeep ==
  call.fn = "validateSettings" =>
    /\ call.result.version = 1
    /\ call.result.keep =
         IF "keep" \in call.arg.supplied
         THEN Min(100, Max(1, call.arg.keep)) ELSE DEFAULT_KEEP

\* C28: no returned element is a descendant of another returned element,
\* and the result of an accepted tier holds every element the tier matched
\* that has no matched ancestor.
OutermostOnly ==
  call.fn = "collectCandidates" =>
    LET nested == call.arg.nested
        nodes == call.result.nodes
        Under(a, b) == a < b /\ \A x \in (a + 1)..b : x \in nested
    IN /\ \A a \in nodes, b \in nodes : ~Under(a, b)
       /\ call.result.tier # 0 =>
            \A b \in call.arg.matches[call.result.tier] :
              (\A a \in call.arg.matches[call.result.tier] : ~Under(a, b))
                => b \in nodes

\* An accepted tier matched an element and one two levels above it, and not
\* the one between them.
NestedUnderGrandparent ==
  /\ call.fn = "collectCandidates"
  /\ call.result.tier = 2
  /\ \E b \in 3..MaxElems :
       /\ {b - 1, b} \subseteq call.arg.nested
       /\ {b - 2, b} \subseteq call.arg.matches[2]
       /\ b - 1 \notin call.arg.matches[2]
       /\ b - 2 \in call.result.nodes
       /\ b \notin call.result.nodes

\* C25: in a batched run over N nodes no chunk processes more than
\* NODES_PER_BATCH of them, every chunk processes at least one (so the run
\* takes at most N chunks), and a finished run has processed all N and has
\* gone back to the idle scheduler at least ceil(N / NODES_PER_BATCH) - 1
\* times after its first request.
BatchedRunYields ==
  /\ run.last <= NODES_PER_BATCH
  /\ run.chunks + run.rest <= run.total
  /\ run.finished =>
       /\ run.rest = 0
       /\ run.yields - 1 >=
            ((run.total + NODES_PER_BATCH - 1) \div NODES_PER_BATCH) - 1

\* A run over more than two full chunks finished in the fewest chunks.
ThreeChunkRun ==
  /\ run.finished
  /\ run.total > 2 * NODES_PER_BATCH
  /\ run.chunks = 3
  /\ run.yields = 3

\* C29: while collapsing is enabled, a long user root that came to match by
\* an attribute change alone has a toggle (collapsed, until the user
\* expands it) once the observer and the animation frames have run.
AttributeEligibleProcessed ==
  \A r \in 1..MaxRoots :
    (/\ collapse.enabled
     /\ collapse.records = {}
     /\ collapse.frames = 0
     /\ collapse.roots[r].present
     /\ collapse.roots[r].matches
     /\ collapse.roots[r].long
     /\ collapse.roots[r].byAttribute)
    => collapse.roots[r].ui \in {"collapsed", "expanded"}

\* C26: shutdown(), called in any state the content script reaches, returns
\* phase Idle with every field at its initial value except settings, which
\* are the settings held before the call; the observer it held observes
\* nothing and a boot() that follows keeps those settings.  Every handler
\* that takes the engine out of a running phase into Idle leaves exactly
\* that, but for trimScheduled, which a scheduleTrim later in the same
\* handler may set again.
ShutdownKeepsOnlySettings ==
  /\ [](LET w == shutdown(World)
            b == boot(w)
        IN /\ w.st.current = "IDLE"
           /\ w.st = [createInitialState EXCEPT !.settings = state.settings]
           /\ ~w.ftc
           /\ state.observer # 0 => w.obs[state.observer].target = {}
           /\ b.st.settings = state.settings
           /\ ~b.oom => b.st.current = "OBSERVING")
  /\ [][(state.current # "IDLE" /\ state'.current = "IDLE") =>
          /\ state' = [createInitialState EXCEPT
                         !.settings = state'.settings,
                         !.trimScheduled = state'.trimScheduled]
          /\ ~firstTrimCompleted'
          /\ state.observer # 0 => observers'[state.observer].target = {}]_vars

\* The engine was shut down while enabled with the user's own keep value:
\* it is Idle, reset, and still holds those settings.
ShutDownWhileEnabled ==
  /\ pc = "ready"
  /\ state.current = "IDLE"
  /\ state.settings = [enabled |-> TRUE, keep |-> KeepLow]
  /\ state = [createInitialState EXCEPT !.settings = state.settings]

NoCandidatesFromBeforeNavigation ==
  lastEval.desc # {} => lastEval.desc \cap (dom \cup lastRemoval.nodes) # {}

\* C33: an empty collection is not served from the cache: when the last
\* collection failed, a Steady-mode evaluation that reads the candidates of
\* a document holding at least MIN_CANDIDATES messages finds some.
EmptyResultNotServedFromCache ==
  [][(/\ selectorCache.valid
      /\ selectorCache.nodes = {}
      /\ state.trimMode = "STEADY"
      /\ Cardinality(dom) >= MIN_CANDIDATES
      /\ lastEval'.kind = "scheduled"
      /\ lastEval'.gate \in {"floor", "nooverflow", "trim"})
     => lastEval'.desc # {}]_vars

\* C34: every descriptor an evaluation counts, and so every node it selects
\* for removal, is in the document when the evaluation runs.
EvaluatesAttachedNodesOnly ==
  [][lastEval'.kind # "none" =>
       /\ lastEval'.desc \subseteq dom
       /\ lastEval'.sel \subseteq dom]_vars

\* C35: an engine observer that observes anything is the observer the
\* state record holds.
OnlyRecordedObserverAttached ==
  \A o \in ObsIds : observers[o].target # {} => state.observer = o

\* C36: no node leaves the document while the engine's phase is Idle.
NoRemovalWhileIdle ==
  lastRemoval.nodes # {} => lastRemoval.phase # "IDLE"

\* C37: at most one batched removal run has idle callbacks outstanding.
AtMostOneBatchedRun ==
  BagCardinality([t \in {u \in BagToSet(macrotasks) : u.kind = "chunk"}
                    |-> macrotasks[t]]) <= 1

\* The thread exceeds the keep count under an enabled, Observing engine
\* while no response is streaming.
ExcessAfterStreaming ==
  /\ state.settings.enabled
  /\ state.current = "OBSERVING"
  /\ ~streaming
  /\ Cardinality(dom) >= MIN_CANDIDATES
  /\ Cardinality(dom) > calculateKeepCount(state.settings)

\* Every queued microtask, timer, idle callback and animation frame has run:
\* the content script runs again only if the host or the user acts.
Quiescent == microtasks = <<>> /\ macrotasks = EmptyBag

\* C38: an evaluation skipped because a response is streaming is followed
\* by a later one, and the excess of a thread over the keep count is removed
\* once streaming has ended.  The engine has no step of its own left when
\* nothing is queued, so: when streaming ends right after an evaluation was
\* skipped because of it, and the thread exceeds the keep count under an
\* enabled, Observing engine, a microtask, timer, idle callback or frame is
\* queued.
StreamingSkipRetried ==
  [][(/\ lastEval.gate = "streaming"
      /\ streaming
      /\ ~streaming'
      /\ ExcessAfterStreaming')
     => ~Quiescent']_vars

\* The payload trimMapping returned, as the input of a second run.
ResultAsData(result) ==
  [mapping |-> result.mapping, current_node |-> result.current_node,
   root |-> result.root]

\* C39: trimming a non-null result again with the same limit returns that
\* result: the same mapping, current node and root.
TrimMappingIdempotent ==
  response.trimmed.ok =>
    LET again == trimMapping(ResultAsData(response.trimmed),
                             getConfigLimit(request))
    IN /\ again.ok
       /\ again.mapping = response.trimmed.mapping
       /\ again.current_node = response.trimmed.current_node
       /\ again.root = response.trimmed.root

\* The limits two runs on one payload are compared under.
Limits == 0..(MaxLimit + 1)

\* C40: for one payload and limits k1 <= k2, a non-null result under k1
\* means a non-null result under k2, and every node kept under k1 (every
\* node of the new mapping, the anchor included) is kept under k2.
KeptGrowsWithLimit ==
  response.served # "none" =>
    \A k1 \in Limits : \A k2 \in Limits :
      LET r1 == trimMapping(request.data, k1)
          r2 == trimMapping(request.data, k2)
      IN (k1 <= k2 /\ r1.ok) =>
           /\ r2.ok
           /\ KeptOf(r1) \subseteq KeptOf(r2)
           /\ DOMAIN r1.mapping \subseteq DOMAIN r2.mapping

\* A payload has been trimmed to fewer nodes than the next larger limit
\* would keep.
LargerLimitKeepsMore ==
  /\ Trimmed
  /\ response.trimmed.keptCount
       < trimMapping(request.data, getConfigLimit(request) + 1).keptCount
====
